---- MODULE Spec2Model ----
(***************************************************************************)
(* GeoTABS India feasibility calculator: the CalculationEngine pipeline    *)
(* (src/calc_engine.py) behind the /api/calculate handler (src/app.py).    *)
(*                                                                         *)
(* Python floats are modelled as fixed-point integers.  Units:             *)
(*   buildingArea_m2          tenths of a square metre                     *)
(*   peakCooling_kW (inputs)  1/10000 kW                                   *)
(*   gsHeatPumpCOP, baseline_COP, oversize_factor, soilConductivity_WpmK   *)
(*                            tenths                                       *)
(*   cooling intensity        hundredths of kW/m2                          *)
(*   electricity rate         half rupees per kWh                          *)
(*   weights                  hundredths                                   *)
(* and in the results                                                      *)
(*   load_kW, capacity_kW, c_l_ratio, CO2 tonnes, weighted_score  1/1000   *)
(*   kWh figures, annual rupee figures                            1/100    *)
(*   capital cost figures, payback_years, watts_per_meter         1/10     *)
(* The capital cost is a sum of whole tenths of a rupee, which round(x, 2) *)
(* leaves as it is.                                                        *)
(* round(x, n) is Python's round-half-even, taken on the exact decimal     *)
(* value; where that value lies exactly halfway between two results the    *)
(* binary float may lie on either side of it, and the float result may be  *)
(* the other neighbour.                                                    *)
(***************************************************************************)
EXTENDS Integers, Sequences, FiniteSets, TLC

VARIABLES
    defaults,   \* engine.defaults
    weights,    \* engine.weights
    pc,         \* position of the request handler: "idle", "received", "computed"
    inputs,     \* the caller's input record of the request being served
    outcome,    \* what engine.run produced: a result or the exception raised
    status,     \* HTTP status of the response of calculate()
    memo,       \* an earlier request and its outcome, kept by the observer
    probe       \* a direct call of one pipeline stage and what it returned

vars == <<defaults, weights, pc, inputs, outcome, status, memo, probe>>

(***************************************************************************)
(* Values of an input record: a key may be absent, hold a number or hold a *)
(* string.                                                                 *)
(***************************************************************************)
Missing == [tag |-> "absent", num |-> 0, str |-> ""]
Num(n) == [tag |-> "num", num |-> n, str |-> ""]
Str(s) == [tag |-> "str", num |-> 0, str |-> s]

Keys ==
    {"buildingArea_m2", "buildingType", "buildingTier", "peakCooling_kW",
     "gsHeatPumpCOP", "baseline_COP", "oversize_factor", "climate", "state",
     "soilConductivity_WpmK", "peakCooling_source"}

EmptyRecord == [k \in Keys |-> Missing]

Has(d, k) == d[k].tag # "absent"
GetNum(d, k, dflt) == IF Has(d, k) THEN d[k].num ELSE dflt
GetStr(d, k, dflt) == IF Has(d, k) THEN d[k].str ELSE dflt

(***************************************************************************)
(* Arithmetic.                                                             *)
(***************************************************************************)
Abs(n) == IF n < 0 THEN -n ELSE n
Max(a, b) == IF a >= b THEN a ELSE b
Min(a, b) == IF a <= b THEN a ELSE b

\* int(n / d) for d > 0: truncation toward zero
Trunc(n, d) == IF n >= 0 THEN n \div d ELSE -((-n) \div d)

\* the quotient rounded half to even, from floor quotient q and remainder r of d
HalfEven(q, r, d) ==
    IF 2 * r < d THEN q
    ELSE IF 2 * r > d THEN q + 1
    ELSE IF q % 2 = 0 THEN q ELSE q + 1

\* round(n / d) for d # 0
RoundDiv(n, d) ==
    LET nn == IF d < 0 THEN -n ELSE n
        dd == Abs(d)
    IN  HalfEven(nn \div dd, nn % dd, dd)

\* <<floor(a * b / d), (a * b) mod d>> for a, b >= 0 and d > 0, computed by
\* doubling so that no intermediate product leaves the 32-bit integers
RECURSIVE MulDivMod(_, _, _)
MulDivMod(a, b, d) ==
    IF b = 0 THEN <<0, 0>>
    ELSE LET h  == MulDivMod(a, b \div 2, d)
             r2 == 2 * h[2]
             q2 == 2 * h[1] + (IF r2 >= d THEN 1 ELSE 0)
             rr == IF r2 >= d THEN r2 - d ELSE r2
         IN  IF b % 2 = 0 THEN <<q2, rr>>
             ELSE LET r3 == rr + (a % d)
                  IN  IF r3 >= d THEN <<q2 + (a \div d) + 1, r3 - d>>
                      ELSE <<q2 + (a \div d), r3>>

\* round(a * b / d) for d > 0
RoundMulDiv(a, b, d) ==
    LET neg == (a < 0) # (b < 0)
        qr  == MulDivMod(Abs(a), Abs(b), d)
        m   == HalfEven(qr[1], qr[2], d)
    IN  IF neg THEN -m ELSE m

(***************************************************************************)
(* Reference tables.                                                       *)
(***************************************************************************)
Zone(cm, hm, gt, ss, ch, hh) ==
    [cooling_months |-> cm, heating_months |-> hm, ground_temp_C |-> gt,
     suitability_score |-> ss, cooling_hours_per_day |-> ch,
     heating_hours_per_day |-> hh]

INDIA_CLIMATE_ZONES ==
    [z \in {"Hot-Dry", "Warm-Humid", "Composite", "Temperate", "Cold"} |->
        CASE z = "Hot-Dry"    -> Zone(8, 2, 28, 3, 10, 3)
          [] z = "Warm-Humid" -> Zone(10, 0, 26, 3, 8, 0)
          [] z = "Composite"  -> Zone(6, 3, 24, 3, 9, 6)
          [] z = "Temperate"  -> Zone(3, 6, 18, 2, 6, 8)
          [] z = "Cold"       -> Zone(1, 8, 12, 2, 4, 10)]

\* INDIA_CLIMATE_ZONES.get(climate, INDIA_CLIMATE_ZONES['Composite'])
ZoneOf(climate) ==
    IF climate \in DOMAIN INDIA_CLIMATE_ZONES
    THEN INDIA_CLIMATE_ZONES[climate]
    ELSE INDIA_CLIMATE_ZONES["Composite"]

Tiers(t1, t2, t3) ==
    [t \in {"Tier-1", "Tier-2", "Tier-3"} |->
        CASE t = "Tier-1" -> t1 [] t = "Tier-2" -> t2 [] t = "Tier-3" -> t3]

INDIA_COOLING_INTENSITY ==
    [b \in {"Office", "Educational", "Residential", "Hospital", "Hotel",
            "IT/Tech Park"} |->
        CASE b = "Office"       -> Tiers(18, 14, 10)
          [] b = "Educational"  -> Tiers(13, 10, 7)
          [] b = "Residential"  -> Tiers(12, 8, 5)
          [] b = "Hospital"     -> Tiers(22, 18, 15)
          [] b = "Hotel"        -> Tiers(18, 14, 10)
          [] b = "IT/Tech Park" -> Tiers(20, 16, 12)]

Rates(c, r) == [commercial |-> c, residential |-> r]

INDIA_ELECTRICITY_RATES ==
    [s \in {"Maharashtra", "Delhi", "Tamil Nadu", "Karnataka", "Gujarat",
            "Rajasthan", "Uttar Pradesh", "West Bengal", "Telangana", "Kerala",
            "Punjab", "Haryana", "Madhya Pradesh", "Andhra Pradesh", "Odisha",
            "National Average"} |->
        CASE s = "Maharashtra"      -> Rates(23, 17)
          [] s = "Delhi"            -> Rates(17, 14)
          [] s = "Tamil Nadu"       -> Rates(18, 12)
          [] s = "Karnataka"        -> Rates(20, 15)
          [] s = "Gujarat"          -> Rates(16, 13)
          [] s = "Rajasthan"        -> Rates(19, 14)
          [] s = "Uttar Pradesh"    -> Rates(18, 14)
          [] s = "West Bengal"      -> Rates(19, 15)
          [] s = "Telangana"        -> Rates(20, 14)
          [] s = "Kerala"           -> Rates(17, 13)
          [] s = "Punjab"           -> Rates(16, 13)
          [] s = "Haryana"          -> Rates(18, 15)
          [] s = "Madhya Pradesh"   -> Rates(18, 14)
          [] s = "Andhra Pradesh"   -> Rates(19, 14)
          [] s = "Odisha"           -> Rates(17, 13)
          [] s = "National Average" -> Rates(19, 15)]

\* rupees per kW of cooling capacity
CAPITAL_COST_PER_KW ==
    [z \in {"Hot-Dry", "Warm-Humid", "Composite", "Temperate", "Cold"} |->
        CASE z = "Hot-Dry"    -> 18000
          [] z = "Warm-Humid" -> 22000
          [] z = "Composite"  -> 20000
          [] z = "Temperate"  -> 21000
          [] z = "Cold"       -> 25000]

\* rupees per metre
BOREHOLE_COST_PER_METER == 900

(***************************************************************************)
(* CalculationEngine: the pipeline stages.                                 *)
(***************************************************************************)

\* validate_inputs without its check of gsHeatPumpCOP
ValidationMessageNoCopCheck(m) ==
    IF ~Has(m, "buildingArea_m2") \/ m["buildingArea_m2"].num <= 0
    THEN "Invalid building area (buildingArea_m2)"
    ELSE IF /\ Has(m, "peakCooling_kW")
            /\ m["peakCooling_kW"].num # 0
            /\ m["peakCooling_kW"].num <= 0
    THEN "peakCooling_kW must be > 0"
    ELSE ""

\* validate_inputs with "< 0" for "<= 0" in its check of the area
ValidationMessageZeroAreaPasses(m) ==
    IF ~Has(m, "buildingArea_m2") \/ m["buildingArea_m2"].num < 0
    THEN "Invalid building area (buildingArea_m2)"
    ELSE IF /\ Has(m, "peakCooling_kW")
            /\ m["peakCooling_kW"].num # 0
            /\ m["peakCooling_kW"].num <= 0
    THEN "peakCooling_kW must be > 0"
    ELSE IF Has(m, "gsHeatPumpCOP") /\ m["gsHeatPumpCOP"].num <= 0
    THEN "gsHeatPumpCOP must be > 0"
    ELSE ""

\* the outcomes of validate_inputs: the message of the ValidationError, or ""
ValidationMessage(m) ==
    IF ~Has(m, "buildingArea_m2") \/ m["buildingArea_m2"].num <= 0
    THEN "Invalid building area (buildingArea_m2)"
    ELSE IF /\ Has(m, "peakCooling_kW")
            /\ m["peakCooling_kW"].num # 0
            /\ m["peakCooling_kW"].num <= 0
    THEN "peakCooling_kW must be > 0"
    ELSE IF Has(m, "gsHeatPumpCOP") /\ m["gsHeatPumpCOP"].num <= 0
    THEN "gsHeatPumpCOP must be > 0"
    ELSE ""

\* kW/m2 in hundredths, for the building type and tier of the record
CoolingIntensity(m) ==
    LET btype == GetStr(m, "buildingType", "Office")
        tier  == GetStr(m, "buildingTier", "Tier-2")
    IN  IF btype \in DOMAIN INDIA_COOLING_INTENSITY
        THEN IF tier \in DOMAIN INDIA_COOLING_INTENSITY[btype]
             THEN INDIA_COOLING_INTENSITY[btype][tier]
             ELSE 15
        ELSE 15

\* in 1/1000 kW
EstimatePeakCooling(m) ==
    GetNum(m, "buildingArea_m2", 0) * CoolingIntensity(m)

\* inputs.get('peakCooling_kW') or self.estimate_peak_cooling(inputs), in 1/10000 kW
ThermalLoad(m) ==
    IF Has(m, "peakCooling_kW") /\ m["peakCooling_kW"].num # 0
    THEN m["peakCooling_kW"].num
    ELSE EstimatePeakCooling(m) * 10

SimpleThermalModel(m) ==
    LET load     == ThermalLoad(m)
        oversize == GetNum(m, "oversize_factor", 12)
        capacity == load * oversize                   \* 1/100000 kW
        ratio    == IF load >= 1                      \* max(load_kW, 1e-6)
                    THEN RoundMulDiv(capacity, 100, load)
                    ELSE capacity * 10000
    IN  [load_kW     |-> RoundDiv(load, 10),
         capacity_kW |-> RoundDiv(capacity, 100),
         c_l_ratio   |-> ratio]

\* soil_k * 8, in tenths of W/m
WattsPerMeter(m) == GetNum(m, "soilConductivity_WpmK", 20) * 8

\* the division by watts_per_meter raises ZeroDivisionError
GroundLoopRaises(m) == WattsPerMeter(m) = 0

\* ground_loop_sizing without the max(1, ...) around the borehole count
GroundLoopSizingNoFloor(m, peak_load) ==
    LET wpm   == WattsPerMeter(m)
        count == RoundDiv(peak_load, wpm * 10)
    IN  [loop_length_m     |-> RoundDiv(peak_load * 10, wpm),
         borehole_count    |-> count,
         land_area_m2      |-> count * 25,
         watts_per_meter   |-> wpm,
         borehole_cost_INR |-> count * 100 * BOREHOLE_COST_PER_METER]

\* peak_load in 1/1000 kW; defined when the division does not raise
GroundLoopSizing(m, peak_load) ==
    LET wpm   == WattsPerMeter(m)
        count == Max(1, RoundDiv(peak_load, wpm * 10))
    IN  [loop_length_m     |-> RoundDiv(peak_load * 10, wpm),
         borehole_count    |-> count,
         land_area_m2      |-> count * 25,
         watts_per_meter   |-> wpm,
         borehole_cost_INR |-> count * 100 * BOREHOLE_COST_PER_METER]

EnergyEstimate(m, model_out) ==
    LET zone      == ZoneOf(GetStr(m, "climate", "Composite"))
        cooling   == zone.cooling_hours_per_day * 30 * zone.cooling_months
        heating   == zone.heating_hours_per_day * 30 * zone.heating_months
        total     == cooling + heating
        effective == (total * 7) \div 10      \* exact: total is a multiple of 30
        cop       == Max(GetNum(m, "gsHeatPumpCOP", 40), 1)
        base      == Max(GetNum(m, "baseline_COP", 30), 1)
        work      == model_out.load_kW * effective
    IN  [annual_kWh       |-> RoundMulDiv(work, 1, cop),
         baseline_kWh     |-> RoundMulDiv(work, 1, base),
         savings_kWh      |-> RoundMulDiv(work, cop - base, base * cop),
         operating_hours  |-> total,
         effective_hours  |-> effective,
         diversity_factor |-> 7]

\* rupees per kWh in halves: the state's rate for the building's category
ElectricityRate(m) ==
    LET state == GetStr(m, "state", "National Average")
        btype == GetStr(m, "buildingType", "Office")
        rates == IF state \in DOMAIN INDIA_ELECTRICITY_RATES
                 THEN INDIA_ELECTRICITY_RATES[state]
                 ELSE INDIA_ELECTRICITY_RATES["National Average"]
    IN  IF btype \in {"Office", "Hospital", "Hotel", "IT/Tech Park"}
        THEN rates.commercial
        ELSE rates.residential

\* energy_out['savings_kWh'] * electricity_rate, unrounded, in 1/200 rupee
AnnualSavings(m, energy_out) == energy_out.savings_kWh * ElectricityRate(m)

\* the four components of the capital cost, unrounded, in tenths of a rupee
CapitalBreakdown(m, model_out, ground_loop) ==
    LET climate == GetStr(m, "climate", "Composite")
        perKW   == IF climate \in DOMAIN CAPITAL_COST_PER_KW
                   THEN CAPITAL_COST_PER_KW[climate]
                   ELSE 20000
    IN  [heat_pump        |-> model_out.capacity_kW * (perKW \div 1000) * 3,
         ground_loop      |-> ground_loop.borehole_cost_INR * 10,
         tabs_integration |-> GetNum(m, "buildingArea_m2", 10000) * 1800,
         controls         |-> model_out.capacity_kW * 20]

CapitalCost(m, model_out, ground_loop) ==
    LET b == CapitalBreakdown(m, model_out, ground_loop)
    IN  b.heat_pump + b.ground_loop + b.tabs_integration + b.controls

\* the payback with 0 for 999 where there are no savings
PaybackYearsZeroSentinel(capital, savings) ==
    IF savings > 0 THEN RoundMulDiv(capital, 200, savings) ELSE 0

\* round(payback_years, 1) in tenths of a year
PaybackYears(capital, savings) ==
    IF savings > 0 THEN RoundMulDiv(capital, 200, savings) ELSE 9990

EconomicAnalysis(m, energy_out, model_out, ground_loop) ==
    LET rate == ElectricityRate(m)
        b    == CapitalBreakdown(m, model_out, ground_loop)
    IN  [electricity_rate   |-> rate,
         geotabs_cost_INR   |-> RoundMulDiv(energy_out.annual_kWh, rate, 2),
         baseline_cost_INR  |-> RoundMulDiv(energy_out.baseline_kWh, rate, 2),
         annual_savings_INR |-> RoundMulDiv(energy_out.savings_kWh, rate, 2),
         capital_cost_INR   |-> CapitalCost(m, model_out, ground_loop),
         capital_cost_breakdown |-> b,
         payback_years      |->
             PaybackYears(CapitalCost(m, model_out, ground_loop),
                          AnnualSavings(m, energy_out))]

\* tonnes in thousandths, for energy in hundredths of a kWh, factor 0.82
Co2Estimate(energy_kwh) == RoundMulDiv(energy_kwh, 41, 5000)

LoadScore(m) ==
    Min(3, Max(0, Trunc(GetNum(m, "buildingArea_m2", 0), 5000)))

CapacityScore(cl) == IF cl >= 1100 THEN 3 ELSE IF cl >= 900 THEN 2 ELSE 1

\* the energy score with "<=" for "<" at 20000 kWh
EnergyScoreInclusiveBand(sk) ==
    IF sk <= 0 THEN 0
    ELSE IF sk <= 2000000 THEN 1
    ELSE IF sk < 5000000 THEN 2
    ELSE 3

EnergyScore(sk) ==
    IF sk <= 0 THEN 0
    ELSE IF sk < 2000000 THEN 1
    ELSE IF sk < 5000000 THEN 2
    ELSE 3

ClimateScore(m) == ZoneOf(GetStr(m, "climate", "Temperate")).suitability_score

EconomicScore(payback) ==
    IF payback < 70 THEN 3
    ELSE IF payback < 120 THEN 2
    ELSE IF payback < 180 THEN 1
    ELSE 0

RankingScores(m, model_out, energy_out, economics) ==
    [load     |-> LoadScore(m),
     capacity |-> CapacityScore(model_out.c_l_ratio),
     energy   |-> EnergyScore(energy_out.savings_kWh),
     climate  |-> ClimateScore(m),
     economic |-> EconomicScore(economics.payback_years)]

RECURSIVE SumOver(_, _)
SumOver(f, S) ==
    IF S = {} THEN 0
    ELSE LET k == CHOOSE x \in S : TRUE IN f[k] + SumOver(f, S \ {k})

Feasibility(total_score) ==
    IF total_score >= 12 THEN "Highly Feasible"
    ELSE IF total_score >= 8 THEN "Conditionally Feasible"
    ELSE "Not Recommended"

\* the weighted score summed over every sub-score, the economic one weighted
\* like the climate
WeightedScoreWithEconomic(w, scores) ==
    LET term == [k \in DOMAIN scores |->
                    (IF k \in DOMAIN w THEN w[k] ELSE 20) * scores[k] * 10]
    IN  SumOver(term, DOMAIN scores)

\* sum(self.weights.get(k, 0) * scores.get(k, 0) for k in self.weights), rounded
\* to 3 decimals: in thousandths
WeightedScore(w, scores) ==
    LET term == [k \in DOMAIN w |->
                    IF k \in DOMAIN scores THEN w[k] * scores[k] * 10 ELSE 0]
    IN  SumOver(term, DOMAIN w)

(***************************************************************************)
(* CalculationEngine.run and the request handler.                          *)
(***************************************************************************)

\* {**self.defaults, **(inputs or {})}
Merge(d, inp) == [k \in Keys |-> IF Has(inp, k) THEN inp[k] ELSE d[k]]

\* peak in [None, "", 0]
PeakIsUnset(m) ==
    \/ ~Has(m, "peakCooling_kW")
    \/ m["peakCooling_kW"].tag = "str" /\ m["peakCooling_kW"].str = ""
    \/ m["peakCooling_kW"].tag = "num" /\ m["peakCooling_kW"].num = 0

\* the estimate stored without rounding
EstimatedPeakUnrounded(m) == EstimatePeakCooling(m) * 10

\* round(self.estimate_peak_cooling(merged), 2), in 1/10000 kW
EstimatedPeak(m) == RoundDiv(EstimatePeakCooling(m), 10) * 100

\* the merged record with the peak cooling load filled in and its source tagged
Normalize(m) ==
    IF PeakIsUnset(m)
    THEN [m EXCEPT !["peakCooling_kW"] = Num(EstimatedPeak(m)),
                   !["peakCooling_source"] =
                       Str("Estimated from Indian building standards")]
    ELSE [m EXCEPT !["peakCooling_kW"] = Num(m["peakCooling_kW"].num),
                   !["peakCooling_source"] = Str("User defined")]

NoResult == [none |-> TRUE]
NoOutcome == [kind |-> "none", error |-> "", message |-> "", result |-> NoResult]
Raised(e, msg) ==
    [kind |-> "raised", error |-> e, message |-> msg, result |-> NoResult]
Returned(r) == [kind |-> "returned", error |-> "", message |-> "", result |-> r]

\* the stages after validation, for a record on which ground_loop_sizing
\* does not raise
Pipeline(w, merged) ==
    LET model_out   == SimpleThermalModel(merged)
        ground_loop == GroundLoopSizing(merged, model_out.capacity_kW)
        energy_out  == EnergyEstimate(merged, model_out)
        economics   == EconomicAnalysis(merged, energy_out, model_out, ground_loop)
        scores      == RankingScores(merged, model_out, energy_out, economics)
        total_score == SumOver(scores, DOMAIN scores)
    IN  [inputs      |-> merged,
         model       |-> model_out,
         ground_loop |-> ground_loop,
         energy      |-> energy_out,
         economics   |-> economics,
         co2         |-> [geotabs_tonnes  |-> Co2Estimate(energy_out.annual_kWh),
                          baseline_tonnes |-> Co2Estimate(energy_out.baseline_kWh),
                          savings_tonnes  |-> Co2Estimate(energy_out.savings_kWh)],
         co2_savings_tonnes |-> Co2Estimate(energy_out.savings_kWh),
         climate_data |-> ZoneOf(GetStr(merged, "climate", "Composite")),
         scores       |-> scores,
         total_score  |-> total_score,
         weighted_score |-> WeightedScore(w, scores),
         feasibility_recommendation |-> Feasibility(total_score)]

\* what run(inputs) does on an engine with defaults d and weights w
Run(d, w, inp) ==
    LET merged == Normalize(Merge(d, inp))
        msg    == ValidationMessage(merged)
    IN  IF msg # "" THEN Raised("ValidationError", msg)
        ELSE IF GroundLoopRaises(merged)
        THEN Raised("ZeroDivisionError", "float division by zero")
        ELSE Returned(Pipeline(w, merged))

\* merged = self.defaults; merged.update(inputs): the defaults aliased
DefaultsAfterRunAliased(d, inp) == Normalize(Merge(d, inp))

\* self.defaults, self.weights and the caller's record once run is over: run
\* works on a fresh merged dict and assigns to none of them
DefaultsAfterRun(d, inp) == d
WeightsAfterRun(w) == w
InputsAfterRun(d, inp) == inp

\* calculate(): 200 with the result, 400 on ValidationError, 500 otherwise
StatusOf(out) ==
    IF out.kind = "returned" THEN 200
    ELSE IF out.error = "ValidationError" THEN 400
    ELSE 500

\* CalculationEngine().weights, in hundredths
InitialWeights ==
    [k \in {"load", "capacity", "energy", "climate"} |->
        CASE k = "load" -> 25 [] k = "capacity" -> 25
          [] k = "energy" -> 30 [] k = "climate" -> 20]

(***************************************************************************)
(* The requests.                                                           *)
(***************************************************************************)

\* the largest building, in steps of 500 m2
MaxAreaSteps == 3
\* the largest capacity handed to ground_loop_sizing alone, in steps of 0.125 kW
MaxCapacitySteps == 40
\* the largest soil conductivity handed to ground_loop_sizing alone, in tenths
MaxSoil == 30

Rec(area, btype, tier, peak, cop, base, oversize, climate, state, soil) ==
    [EmptyRecord EXCEPT
        !["buildingArea_m2"] = area, !["buildingType"] = btype,
        !["buildingTier"] = tier, !["peakCooling_kW"] = peak,
        !["gsHeatPumpCOP"] = cop, !["baseline_COP"] = base,
        !["oversize_factor"] = oversize, !["climate"] = climate,
        !["state"] = state, !["soilConductivity_WpmK"] = soil]

\* 0.3 m2 and 500 m2, 1000 m2, ...
PositiveAreas == {Num(3)} \cup {Num(k * 5000) : k \in 1..MaxAreaSteps}

\* requests that probe the validation gate
ValidationInputs ==
    {Rec(a, Missing, Missing, p, c, Missing, Missing, Missing, Missing, Missing) :
        a \in {Missing, Num(-50), Num(0)} \cup PositiveAreas,
        p \in {Missing, Str(""), Num(0), Num(-50000), Num(4), Num(500006)},
        c \in {Missing, Num(0), Num(-10), Num(35), Num(50)}}

\* requests that vary what sizing and scoring depend on
SizingInputs ==
    {Rec(a, b, t, p, c, ba, o, cl, Missing, Missing) :
        a \in PositiveAreas,
        b \in {Missing, Str("Residential"), Str("Warehouse")},
        t \in {Missing, Str("Tier-1"), Str("Tier-9")},
        p \in {Missing, Num(500006)},
        c \in {Missing, Num(35), Num(50)},
        ba \in {Missing, Num(20), Num(50)},
        o \in {Missing, Num(0), Num(10)},
        cl \in {Missing, Str("Composite"), Str("Temperate"), Str("Hot-Dry"),
                Str("Mars")}}

\* requests with unrecognized or degenerate fields, on small buildings
DegenerateInputs ==
    {Rec(a, b, Missing, Missing, Missing, ba, o, cl, s, so) :
        a \in {Num(3), Num(1000)},
        b \in {Missing, Str("Warehouse")},
        ba \in {Missing, Num(0), Num(-10)},
        o \in {Missing, Num(0)},
        cl \in {Missing, Str("Mars")},
        s \in {Missing, Str("Delhi"), Str("Atlantis")},
        so \in {Missing, Num(0), Num(14), Num(-20)}}

Inputs == ValidationInputs \cup SizingInputs \cup DegenerateInputs

\* the requests that are repeated
RepeatInputs ==
    {Rec(a, Missing, Missing, p, c, Missing, Missing, cl, Missing, Missing) :
        a \in {Num(0), Num(5000), Num(MaxAreaSteps * 5000)},
        p \in {Missing, Num(500006)},
        c \in {Missing, Num(0)},
        cl \in {Missing, Str("Cold")}}

\* nothing kept; "between" is how the last request since the kept one ended
NoMemo == [inputs |-> EmptyRecord, outcome |-> NoOutcome, between |-> "none"]
NoProbe == [fn |-> "none"]

Init ==
    /\ defaults = EmptyRecord          \* engine = CalculationEngine()
    /\ weights = InitialWeights
    /\ pc = "idle"
    /\ inputs = EmptyRecord
    /\ outcome = NoOutcome
    /\ status = 0
    /\ memo = NoMemo
    /\ probe = NoProbe

\* a request arrives: data.get('inputs', {})
Receive(I) ==
    /\ pc = "idle"
    /\ \E inp \in I : inputs' = inp
    /\ pc' = "received"
    /\ UNCHANGED <<defaults, weights, outcome, status, memo, probe>>

\* calculate() calls engine.run(inputs) and builds the response
Calculate ==
    /\ pc = "received"
    /\ outcome' = Run(defaults, weights, inputs)
    /\ status' = StatusOf(outcome')
    /\ defaults' = DefaultsAfterRun(defaults, inputs)
    /\ weights' = WeightsAfterRun(weights)
    /\ inputs' = InputsAfterRun(defaults, inputs)
    /\ pc' = "computed"
    /\ UNCHANGED <<memo, probe>>

\* the response is sent and the result discarded
Respond ==
    /\ pc = "computed"
    /\ pc' = "idle"
    /\ inputs' = EmptyRecord
    /\ outcome' = NoOutcome
    /\ status' = 0
    /\ memo' = IF memo = NoMemo THEN memo ELSE [memo EXCEPT !.between = outcome.kind]
    /\ UNCHANGED <<defaults, weights, probe>>

\* the same, the observer keeping the request and what it produced
RespondRemember ==
    /\ pc = "computed"
    /\ pc' = "idle"
    /\ memo' = [inputs |-> inputs, outcome |-> outcome, between |-> "none"]
    /\ inputs' = EmptyRecord
    /\ outcome' = NoOutcome
    /\ status' = 0
    /\ UNCHANGED <<defaults, weights, probe>>

ReceiveAny == Receive(Inputs)
ReceiveRepeat == Receive(RepeatInputs)

Next == ReceiveAny \/ Calculate \/ Respond
Spec == Init /\ [][Next]_vars

NextRepeat == ReceiveRepeat \/ Calculate \/ Respond \/ RespondRemember
SpecRepeat == Init /\ [][NextRepeat]_vars

(***************************************************************************)
(* Single stages called on their own.                                      *)
(***************************************************************************)
LoopCapacities == {1} \cup {k * 125 : k \in 0..MaxCapacitySteps}

\* ground_loop_sizing(inputs, peak_load_kW) with a positive soil conductivity
SizeGroundLoop ==
    /\ probe = NoProbe
    /\ \E cap \in LoopCapacities, soil \in 1..MaxSoil :
        LET m == [EmptyRecord EXCEPT !["soilConductivity_WpmK"] = Num(soil)]
        IN  probe' = [fn |-> "ground_loop_sizing", capacity |-> cap,
                      soil |-> soil, out |-> GroundLoopSizing(m, cap)]
    /\ UNCHANGED <<defaults, weights, pc, inputs, outcome, status, memo>>

\* ranking_scores(inputs, model_out, energy_out, economics)
Rank ==
    /\ probe = NoProbe
    /\ \E a \in {Missing, Num(4999), Num(5000), Num(15000)},
       cl \in {Missing, Str("Cold"), Str("Hot-Dry")},
       ratio \in {899, 900, 1099, 1100},
       sk \in {-1, 0, 1, 1999999, 2000000, 4999999, 5000000},
       pb \in {69, 70, 119, 120, 179, 180, 9990} :
        LET m == [EmptyRecord EXCEPT !["buildingArea_m2"] = a, !["climate"] = cl]
        IN  probe' = [fn |-> "ranking_scores", area |-> a, climate |-> cl,
                      c_l_ratio |-> ratio, savings_kWh |-> sk,
                      payback_years |-> pb,
                      out |-> RankingScores(m, [c_l_ratio |-> ratio],
                                            [savings_kWh |-> sk],
                                            [payback_years |-> pb])]
    /\ UNCHANGED <<defaults, weights, pc, inputs, outcome, status, memo>>

\* the stage's return value is dropped
Drop ==
    /\ probe # NoProbe
    /\ probe' = NoProbe
    /\ UNCHANGED <<defaults, weights, pc, inputs, outcome, status, memo>>

NextStages == SizeGroundLoop \/ Rank \/ Drop
SpecStages == Init /\ [][NextStages]_vars

(***************************************************************************)
(* Properties.                                                             *)
(***************************************************************************)
Computed == pc = "computed"
Returned200 == Computed /\ outcome.kind = "returned"
RaisedValidation ==
    Computed /\ outcome.kind = "raised" /\ outcome.error = "ValidationError"
Result == outcome.result

AreaPositive == Has(inputs, "buildingArea_m2") /\ inputs["buildingArea_m2"].num > 0
PeakNegative ==
    inputs["peakCooling_kW"].tag = "num" /\ inputs["peakCooling_kW"].num < 0
CopNotPositive == Has(inputs, "gsHeatPumpCOP") /\ inputs["gsHeatPumpCOP"].num <= 0
SoilZero ==
    Has(inputs, "soilConductivity_WpmK") /\ inputs["soilConductivity_WpmK"].num = 0

\* C1 as stated: whenever buildingArea_m2 > 0, whatever the other fields, run
\* raises nothing and returns a result whose total_score lies in [0, 15].
C1_AnyPositiveAreaCompletes ==
    Computed /\ AreaPositive =>
        /\ outcome.kind = "returned"
        /\ Result.total_score \in 0..15

\* C1 amended: with buildingArea_m2 > 0, run raises ValidationError exactly when
\* a supplied peakCooling_kW is negative or gsHeatPumpCOP is present and <= 0;
\* otherwise it returns a result whose total_score lies in [0, 15], except that
\* it raises (ZeroDivisionError) exactly when soilConductivity_WpmK is 0.
C1_PositiveAreaOutcome ==
    Computed /\ AreaPositive =>
        /\ (outcome.error = "ValidationError") <=> (PeakNegative \/ CopNotPositive)
        /\ (outcome.kind = "raised" /\ outcome.error # "ValidationError")
               <=> (~(PeakNegative \/ CopNotPositive) /\ SoilZero)
        /\ outcome.kind = "returned" => Result.total_score \in 0..15

\* C1 witness: a request with positive area and nothing invalid has been served
\* and scored "Highly Feasible"
C1_Witness ==
    /\ Returned200 /\ AreaPositive
    /\ Result.total_score >= 12

\* C2: run raises ValidationError and returns no result whenever buildingArea_m2
\* is missing or <= 0, a supplied peakCooling_kW is negative, or gsHeatPumpCOP is
\* present and <= 0, also when the peak load had to be estimated from the
\* invalid area first.
C2_InvalidInputsRaise ==
    Computed /\ (~AreaPositive \/ PeakNegative \/ CopNotPositive) =>
        /\ RaisedValidation
        /\ Result = NoResult
        /\ status = 400

\* C2 witness: a negative area without a peak load, so that the estimate ran on
\* it, was rejected
C2_Witness ==
    /\ RaisedValidation
    /\ inputs["buildingArea_m2"] = Num(-50)
    /\ ~Has(inputs, "peakCooling_kW")

\* C3 as stated: every call of run returns the complete result or raises
\* ValidationError, and no other error.
C3_ResultOrValidationError ==
    Computed => outcome.kind = "returned" \/ outcome.error = "ValidationError"

\* C4: in a result, an absent, empty or zero peakCooling_kW is replaced by
\* estimate_peak_cooling(inputs) rounded to 2 decimals and tagged as estimated;
\* a non-zero one is kept as supplied, tagged "User defined", and is the load
\* of the thermal model (reported to 3 decimals).
C4_PeakCoolingProvenance ==
    Returned200 =>
        LET peak == Result.inputs["peakCooling_kW"].num
            src  == Result.inputs["peakCooling_source"].str
        IN  IF PeakIsUnset(inputs)
            THEN /\ src = "Estimated from Indian building standards"
                 /\ peak % 100 = 0
                 /\ Abs(peak - 10 * EstimatePeakCooling(inputs)) <= 50
            ELSE /\ src = "User defined"
                 /\ peak = inputs["peakCooling_kW"].num
                 /\ Abs(10 * Result.model.load_kW - peak) <= 5

\* C4 witness: a 0.3 m2 office without a peak load: 0.042 kW estimated, 0.04 kept
C4_Witness ==
    /\ Returned200
    /\ ~Has(inputs, "peakCooling_kW")
    /\ EstimatePeakCooling(inputs) = 42
    /\ Result.inputs["peakCooling_kW"] = Num(400)

\* C5: for every capacity >= 0 and positive soil conductivity, ground_loop_sizing
\* returns borehole_count >= 1, land_area_m2 = 25 x borehole_count and
\* borehole_cost_INR = borehole_count x 100 x 900.
C5_AtLeastOneBorehole ==
    probe.fn = "ground_loop_sizing" =>
        /\ probe.out.borehole_count >= 1
        /\ probe.out.land_area_m2 = 25 * probe.out.borehole_count
        /\ probe.out.borehole_cost_INR = probe.out.borehole_count * 100 * 900

\* C5 witness: a capacity of 0.001 kW was sized to one borehole
C5_Witness ==
    /\ probe.fn = "ground_loop_sizing"
    /\ probe.capacity = 1
    /\ probe.out.borehole_count = 1

\* C6: when the annual savings are not positive, payback_years is 999 and the
\* economic score 0; otherwise payback_years is the capital cost divided by the
\* annual savings (to one decimal) and the economic score is 3 below 7 years,
\* 2 below 12, 1 below 18, else 0.
C6_PaybackSentinel ==
    Returned200 =>
        LET econ    == Result.economics
            savings == Result.energy.savings_kWh * econ.electricity_rate
        IN  IF Result.energy.savings_kWh <= 0
            THEN /\ econ.annual_savings_INR <= 0
                 /\ econ.payback_years = 9990
                 /\ Result.scores.economic = 0
            ELSE /\ econ.annual_savings_INR > 0
                 /\ econ.payback_years =
                        RoundMulDiv(econ.capital_cost_INR, 200, savings)
                 /\ Result.scores.economic =
                        CASE econ.payback_years < 70  -> 3
                          [] econ.payback_years \in 70..119  -> 2
                          [] econ.payback_years \in 120..179 -> 1
                          [] OTHER -> 0

\* C6 witness: a heat pump worse than the baseline: negative savings, the
\* sentinel and an economic score of 0
C6_Witness ==
    /\ Returned200
    /\ Result.energy.savings_kWh < 0
    /\ Result.economics.payback_years = 9990
    /\ Result.scores.economic = 0

\* C7: a request repeated with an identical input record, whatever was served in
\* between, gets the identical outcome; run changes neither the engine's
\* defaults and weights nor the caller's record.
C7_RepeatedRunIdentical ==
    /\ [](Computed /\ memo # NoMemo /\ memo.inputs = inputs
            => outcome = memo.outcome)
    /\ [][/\ defaults' = defaults
          /\ weights' = weights
          /\ pc = "received" => inputs' = inputs]_vars

\* C7 witness: a request served again, after one that raised in between, with
\* the same result
C7_Witness ==
    /\ Returned200
    /\ memo.inputs = inputs
    /\ memo.between = "raised"
    /\ outcome = memo.outcome

\* C8 as stated: without a climate zone the result is that of climate =
\* "Composite" apart from the echoed inputs, and in every result scores.climate
\* is the suitability_score of the climate_data returned.
C8_ClimateDefaultsToComposite ==
    Returned200 =>
        /\ Result.scores.climate = Result.climate_data.suitability_score
        /\ ~Has(inputs, "climate") =>
               LET other == Run(defaults, weights,
                                [inputs EXCEPT !["climate"] = Str("Composite")])
               IN  [k \in DOMAIN Result \ {"inputs"} |-> Result[k]]
                   = [k \in DOMAIN Result \ {"inputs"} |-> other.result[k]]

\* C9: the energy score is 0 for savings_kWh <= 0, 1 below 20000, 2 from 20000
\* and below 50000, 3 from 50000 on.
C9_EnergyScoreBands ==
    probe.fn = "ranking_scores" =>
        probe.out.energy =
            CASE probe.savings_kWh <= 0 -> 0
              [] probe.savings_kWh \in 1..1999999 -> 1
              [] probe.savings_kWh \in 2000000..4999999 -> 2
              [] OTHER -> 3

\* C9 witness: savings of exactly 20000 kWh scored 2
C9_Witness ==
    /\ probe.fn = "ranking_scores"
    /\ probe.savings_kWh = 2000000
    /\ probe.out.energy = 2

\* C10: total_score is the sum of the five sub-scores and decides the label
\* (>= 12 "Highly Feasible", >= 8 "Conditionally Feasible", else "Not
\* Recommended"); weighted_score is 0.25 load + 0.25 capacity + 0.30 energy +
\* 0.20 climate, without the economic score.
C10_TotalAndWeighted ==
    Returned200 =>
        LET sc == Result.scores
        IN  /\ Result.total_score =
                   sc.load + sc.capacity + sc.energy + sc.climate + sc.economic
            /\ Result.feasibility_recommendation =
                   CASE Result.total_score >= 12 -> "Highly Feasible"
                     [] Result.total_score \in 8..11 -> "Conditionally Feasible"
                     [] OTHER -> "Not Recommended"
            /\ Result.weighted_score =
                   250 * sc.load + 250 * sc.capacity + 300 * sc.energy
                   + 200 * sc.climate

\* C10 witness: a "Conditionally Feasible" result with a positive economic score
C10_Witness ==
    /\ Returned200
    /\ Result.scores.economic > 0
    /\ Result.total_score \in 8..11
    /\ Result.feasibility_recommendation = "Conditionally Feasible"

====
